---- MODULE Spec2Model ----
(***************************************************************************)
(* Process-output relay and polling protocol of the RiskGuard deploy       *)
(* routes (backend/routes/deploy.js): the three module-level maps          *)
(* activeMonitors / monitorUpdates / sentUpdateIndices, the stream and     *)
(* exit listeners registered by POST /start-realtime-monitor, the poll     *)
(* handler GET /monitor-updates/:agentId and POST /stop-monitoring.        *)
(*                                                                         *)
(* Text is modelled as a sequence of tokens (words, blanks, newlines);     *)
(* String.includes and the regular expressions of the source become        *)
(* contiguous-subsequence matches over tokens.                             *)
(***************************************************************************)
EXTENDS Integers, Sequences, FiniteSets, TLC

(***************************************************************************)
(* Bounds of the model                                                     *)
(***************************************************************************)
\* events (requests, timeouts, subprocess events) of one run
MaxSteps == 5
\* number of lines in the one large stdout chunk the subprocess may write
BurstLen == 50

(***************************************************************************)
(* Program constants                                                       *)
(***************************************************************************)
\* updates.slice(-50): capacity of a session's update log
Capacity == 50

\* agent ids `agent_${Date.now()}_${random}` the server can generate
AgentIds == {"agent_1_k3", "agent_2_x7"}
\* the ids start requests of a run are given; the other id stays unknown to
\* the server, and requests may still name it
StartedIds == {"agent_1_k3"}

(***************************************************************************)
(* Text helpers                                                            *)
(***************************************************************************)
NL == "\n"
Blank == " "
\* characters String.prototype.trim removes
Whitespace == {Blank, NL}

\* Array.prototype.slice(start) for start >= 0
SliceFrom(arr, start) ==
    IF start >= Len(arr) THEN << >> ELSE SubSeq(arr, start + 1, Len(arr))

\* Array.prototype.slice(-n): the last n elements
SliceLast(arr, n) ==
    IF Len(arr) <= n THEN arr ELSE SubSeq(arr, Len(arr) - n + 1, Len(arr))

\* String.prototype.trim
RECURSIVE TrimLeft(_)
TrimLeft(s) ==
    IF s = << >> THEN s
    ELSE IF Head(s) \in Whitespace THEN TrimLeft(Tail(s)) ELSE s
RECURSIVE TrimRight(_)
TrimRight(s) ==
    IF s = << >> THEN s
    ELSE IF s[Len(s)] \in Whitespace THEN TrimRight(SubSeq(s, 1, Len(s) - 1)) ELSE s
Trim(s) == TrimRight(TrimLeft(s))

\* String.prototype.split('\n'): the pieces between consecutive newlines
SplitNL(s) ==
    LET nl == {i \in 1..Len(s) : s[i] = NL}
        \* position of the k-th newline; 0 before the first, Len(s)+1 after the last
        At(k) == IF k = 0 THEN 0
                 ELSE IF k > Cardinality(nl) THEN Len(s) + 1
                 ELSE CHOOSE i \in nl : Cardinality({j \in nl : j < i}) = k - 1
    IN  [k \in 1..(Cardinality(nl) + 1) |-> SubSeq(s, At(k - 1) + 1, At(k) - 1)]

\* data.toString().split('\n').filter(line => line.trim())
ChunkLines(data) == SelectSeq(SplitNL(data), LAMBDA l : Trim(l) # << >>)

\* String.prototype.includes
Includes(s, pat) ==
    \E i \in 1..(Len(s) - Len(pat) + 1) : SubSeq(s, i, i + Len(pat) - 1) = pat

(***************************************************************************)
(* JSON.parse of one output line.  The subprocess writes whole records as  *)
(* single tokens; any other text is not JSON.                              *)
(***************************************************************************)
JsonTokens == {"{file_change}", "{analysis_result}", "{status}", "null"}
SyntaxError == "SyntaxError"
Digits == {"0", "1", "2", "3", "4", "5", "6", "7", "8", "9"}
Dot == "."

\* longest prefix of s whose tokens are all in set
RECURSIVE TakeWhile(_, _)
TakeWhile(s, set) ==
    IF s = << >> \/ Head(s) \notin set THEN << >>
    ELSE << Head(s) >> \o TakeWhile(Tail(s), set)

\* the JSON number grammar: digits without a leading zero, then an optional
\* fraction of at least one digit
IsJsonNumber(t) ==
    LET whole == TakeWhile(t, Digits)
        rest  == SubSeq(t, Len(whole) + 1, Len(t))
    IN  /\ whole # << >>
        /\ Len(whole) = 1 \/ whole[1] # "0"
        /\ \/ rest = << >>
           \/ /\ Len(rest) >= 2
              /\ rest[1] = Dot
              /\ \A i \in 2..Len(rest) : rest[i] \in Digits

\* JSON.parse(line): the parsed value, or SyntaxError when parse throws
JsonParse(line) ==
    LET t == Trim(line)
    IN  IF Len(t) = 1 /\ t[1] \in JsonTokens THEN t[1]
        ELSE IF IsJsonNumber(t) THEN "number"
        ELSE SyntaxError

\* a parser in which reading the type of null gives undefined instead of
\* throwing
JsonTypeNullUndefined(v) ==
    CASE v = "{file_change}" -> "file_change"
      [] v = "{analysis_result}" -> "analysis_result"
      [] v = "{status}" -> "status"
      [] OTHER -> "undefined"

\* update.type of a parsed value: undefined for a number; reading .type of
\* null throws a TypeError
JsonType(v) ==
    CASE v = "{file_change}" -> "file_change"
      [] v = "{analysis_result}" -> "analysis_result"
      [] v = "{status}" -> "status"
      [] v = "number" -> "undefined"
      [] OTHER -> "TypeError"

(***************************************************************************)
(* parseMetricsSection                                                     *)
(***************************************************************************)
TreeMark == "|_"

DigitValue(d) ==
    CASE d = "0" -> 0 [] d = "1" -> 1 [] d = "2" -> 2 [] d = "3" -> 3
      [] d = "4" -> 4 [] d = "5" -> 5 [] d = "6" -> 6 [] d = "7" -> 7
      [] d = "8" -> 8 [] d = "9" -> 9

\* a metric value: parseInt gives an integer, parseFloat an integer part and
\* fraction digits, or NaN
RECURSIVE DecimalValue(_)
DecimalValue(ds) ==
    IF ds = << >> THEN 0
    ELSE 10 * DecimalValue(SubSeq(ds, 1, Len(ds) - 1)) + DigitValue(ds[Len(ds)])

\* parseInt of a run of digits
ParseInt(ds) ==
    [nan |-> FALSE, whole |-> DecimalValue(ds), frac |-> << >>]

\* fraction digits without the trailing zeros, which do not change the value
RECURSIVE StripZeros(_)
StripZeros(ds) ==
    IF ds # << >> /\ ds[Len(ds)] = "0" THEN StripZeros(SubSeq(ds, 1, Len(ds) - 1))
    ELSE ds

\* parseFloat of a run of digits and dots: the value of the longest numeric
\* prefix, or NaN when that prefix has no digit
ParseFloat(s) ==
    LET whole == TakeWhile(s, Digits)
        rest  == SliceFrom(s, Len(whole))
        frac  == IF rest # << >> /\ Head(rest) = Dot
                 THEN TakeWhile(Tail(rest), Digits) ELSE << >>
    IN  IF whole = << >> /\ frac = << >>
        THEN [nan |-> TRUE, whole |-> 0, frac |-> << >>]
        ELSE [nan |-> FALSE, whole |-> DecimalValue(whole), frac |-> StripZeros(frac)]

\* line.match(/LABEL\s*(set+)/): the captured group of the leftmost match,
\* or << >> when the line does not match
RegexCapture(line, label, set) ==
    LET CaptureAt(i) ==
            LET after == SliceFrom(line, i + Len(label) - 1)
            IN  TakeWhile(SliceFrom(after, Len(TakeWhile(after, {Blank}))), set)
        hits == {i \in 1..(Len(line) - Len(label) + 1) :
                    /\ SubSeq(line, i, i + Len(label) - 1) = label
                    /\ CaptureAt(i) # << >>}
    IN  IF hits = {} THEN << >>
        ELSE CaptureAt(CHOOSE i \in hits : \A j \in hits : i <= j)

MetricKeys == {"loc", "complexity", "dependencies", "functions", "classes",
               "comments", "complexity_per_loc", "comment_ratio",
               "functions_per_class"}

\* the label text each branch of parseMetricsSection looks for, in the
\* order of the if / else-if chain
MetricLabels == <<
    [key |-> "loc",                 label |-> << "LOC", ":" >>,                                         float |-> FALSE],
    [key |-> "complexity",          label |-> << "COMPLEXITY", ":" >>,                                  float |-> TRUE],
    [key |-> "dependencies",        label |-> << "DEPENDENCIES", ":" >>,                                float |-> FALSE],
    [key |-> "functions",           label |-> << "FUNCTIONS", ":" >>,                                   float |-> FALSE],
    [key |-> "classes",             label |-> << "CLASSES", ":" >>,                                     float |-> FALSE],
    [key |-> "comments",            label |-> << "COMMENTS", ":" >>,                                    float |-> FALSE],
    [key |-> "complexity_per_loc",  label |-> << "COMPLEXITY", Blank, "PER", Blank, "LOC", ":" >>,      float |-> TRUE],
    [key |-> "comment_ratio",       label |-> << "COMMENT", Blank, "RATIO", ":" >>,                     float |-> TRUE],
    [key |-> "functions_per_class", label |-> << "FUNCTIONS", Blank, "PER", Blank, "CLASS", ":" >>,     float |-> TRUE] >>

\* const metrics = {} : an object is a function from its own keys
EmptyMetrics == [k \in {} |-> [nan |-> FALSE, whole |-> 0, frac |-> << >>]]

\* metrics.key = value
SetKey(metrics, k, v) ==
    [x \in DOMAIN metrics \cup {k} |-> IF x = k THEN v ELSE metrics[x]]

\* one iteration of the for loop of parseMetricsSection: the first branch
\* whose includes() test succeeds is taken; it assigns only if the regex matches
MetricsLine(metrics, line) ==
    LET taken == {b \in 1..Len(MetricLabels) :
                     Includes(line, << TreeMark, Blank >> \o MetricLabels[b].label)}
    IN  IF taken = {} THEN metrics
        ELSE LET b   == CHOOSE i \in taken : \A j \in taken : i <= j
                 m   == MetricLabels[b]
                 cap == RegexCapture(line, m.label,
                                     IF m.float THEN Digits \cup {Dot} ELSE Digits)
             IN  IF cap = << >> THEN metrics
                 ELSE SetKey(metrics, m.key,
                             IF m.float THEN ParseFloat(cap) ELSE ParseInt(cap))

RECURSIVE MetricsFold(_, _)
MetricsFold(metrics, lines) ==
    IF lines = << >> THEN metrics
    ELSE MetricsFold(MetricsLine(metrics, Head(lines)), Tail(lines))

\* parseMetricsSection(lines): null when Object.keys(metrics) is empty
parseMetricsSection(lines) ==
    LET metrics == MetricsFold(EmptyMetrics, lines)
    IN  IF Cardinality(DOMAIN metrics) > 0
        THEN [null |-> FALSE, fields |-> metrics]
        ELSE [null |-> TRUE, fields |-> EmptyMetrics]

(***************************************************************************)
(* State                                                                   *)
(***************************************************************************)
VARIABLES
    activeMonitors,     \* keys of the activeMonitors Map, in insertion order
    monitorUpdates,     \* Map agentId -> array of updates (a missing key is outside DOMAIN)
    sentUpdateIndices,  \* Map agentId -> index stored by the last poll
    bufferLines,        \* the bufferLines closure variable of each started agent
    proc,               \* the spawned subprocess of each agent id
    killTimers,         \* agents whose stop request has a pending SIGKILL timeout
    startReq,           \* state of the start request that generated each agent id
    lastPoll,           \* the last poll request served and its response
    lastStop,           \* the last stop request served and its response
    appended,           \* history: number of updates ever pushed for each agent id
    returned,           \* history: append numbers some poll response has carried
    received,           \* history: append numbers carried by a response that arrived
    steps,              \* events so far
    currentSession,     \* client: the currentSession state (its id), or NoArg for null
    awaiting,           \* client: agent id of its start request that is not answered yet
    currentAgentId,     \* client: the agentId its polling loop was started with
    monitoringInterval, \* client: window.monitoringInterval is set (the interval runs)
    missedPollCount,    \* client: the counter of the polling loop
    inFlight,           \* client: poll callbacks waiting for their fetch to settle
    errorLines,         \* client: error lines the polling loop has written
    projects,           \* the Project collection: _id -> document
    creator,            \* history: the user whose request created each _id
    pendingProject,     \* project requests between their two database calls
    lastProject         \* the last project request answered and its response

vars == << activeMonitors, monitorUpdates, sentUpdateIndices, bufferLines, proc,
           killTimers, startReq, lastPoll, lastStop, appended, returned,
           received >>

\* the state of the one client (browser page) the model follows
clientVars == << currentSession, awaiting, currentAgentId, monitoringInterval,
                missedPollCount, inFlight, errorLines >>
allVars == << vars, clientVars >>
projectVars == << projects, creator, pendingProject, lastProject >>

\* Map.has / Map.set / Map.delete on a Map modelled as a function
MapHas(map, k) == k \in DOMAIN map
MapSet(map, k, v) == [x \in DOMAIN map \cup {k} |-> IF x = k THEN v ELSE map[x]]
MapDelete(map, k) == [x \in DOMAIN map \ {k} |-> map[x]]

\* Map.set / Map.delete on the key list of a Map: a new key goes to the end
KeysSet(keys, k) ==
    IF \E i \in 1..Len(keys) : keys[i] = k THEN keys ELSE Append(keys, k)
KeysDelete(keys, k) == SelectSeq(keys, LAMBDA x : x # k)

\* monitorUpdates.get(agentId) || []
UpdatesOf(a) == IF MapHas(monitorUpdates, a) THEN monitorUpdates[a] ELSE << >>

\* k || -1 for a stored number k: 0 is falsy
OrMinusOne(k) == IF k # 0 THEN k ELSE -1

\* sentUpdateIndices.get(agentId) || -1 : undefined is falsy too
LastSentIndex(a) ==
    IF MapHas(sentUpdateIndices, a) THEN OrMinusOne(sentUpdateIndices[a]) ELSE -1

\* a delta read while an eviction removes an entry inside the window: the
\* second entry of the delta is missing
NewUpdatesTorn(allUpdates, lastSentIndex) ==
    LET delta == SliceFrom(allUpdates, lastSentIndex + 1)
    IN  IF Len(delta) < 2 THEN delta
        ELSE << delta[1] >> \o SubSeq(delta, 3, Len(delta))

\* a delta that lists the newest update first
NewUpdatesNewestFirst(allUpdates, lastSentIndex) ==
    LET delta == SliceFrom(allUpdates, lastSentIndex + 1)
    IN  [i \in 1..Len(delta) |-> delta[Len(delta) + 1 - i]]

\* allUpdates.slice(lastSentIndex + 1)
NewUpdates(allUpdates, lastSentIndex) == SliceFrom(allUpdates, lastSentIndex + 1)

\* append numbers of the entries of an array of updates
Seqs(arr) == {arr[i].seq : i \in 1..Len(arr)}

(***************************************************************************)
(* Update records pushed by the listeners.  seq is the history number of   *)
(* the push (the code stores no index in an update; timestamp tells them   *)
(* apart).                                                                 *)
(***************************************************************************)
\* an update without a metrics property
NoMetrics == EmptyMetrics

\* the object literals the listeners push (agentId is the key of the log the
\* update is stored in; timestamp is not modelled)
Update(type, message, metrics, n) ==
    [type |-> type, message |-> message, metrics |-> metrics, seq |-> n]

\* a trim that keeps one entry too many
TrimmedOffByOne(updates) == SliceLast(updates, Capacity + 1)

\* the capacity trim every listener applies before storing: updates.slice(-50)
Trimmed(updates) == SliceLast(updates, Capacity)

(***************************************************************************)
(* monitorProcess.stdout.on('data'): the body of lines.forEach for one     *)
(* line.  st.updates is the local array, st.buffer is bufferLines and      *)
(* st.count the number of pushes of this event; a structured update        *)
(* carries the fields of the parsed record in place of a message.          *)
(***************************************************************************)
StdoutLine(st, line, base) ==
    LET isTree == Includes(line, << TreeMark >>)
        buf1   == IF isTree THEN Append(st.buffer, line) ELSE st.buffer
        \* end of a metrics section: parse (result only logged) and reset
        buf2   == IF buf1 # << >> /\ ~isTree /\ Trim(line) # << >> THEN << >> ELSE buf1
        parsed == JsonParse(line)
        type   == IF parsed = SyntaxError THEN "TypeError" ELSE JsonType(parsed)
        n      == base + st.count
        found  == parseMetricsSection(buf2)
        attach == IF /\ Includes(line, << "EXTRACTED", Blank, "FEATURES" >>)
                     /\ buf2 # << >>
                     /\ ~found.null
                  THEN found.fields ELSE NoMetrics
        pushed ==
            IF parsed # SyntaxError /\ type # "TypeError"
            THEN IF type \in {"file_change", "analysis_result"}
                 THEN << Update(type, line, NoMetrics, n) >>
                 ELSE << >>
            ELSE << Update("console_output", line, attach, n) >>
    IN  [updates |-> st.updates \o pushed, buffer |-> buf2,
         count |-> st.count + Len(pushed)]

\* lines.forEach(...): the lines in order.  The list is processed by halves,
\* the state after the first half being computed before the second half is
\* entered, only to keep the evaluation shallow; the result is the
\* left-to-right fold of StdoutLine.
RECURSIVE StdoutLines(_, _, _)
StdoutLines(st, lines, base) ==
    IF lines = << >> THEN st
    ELSE IF Len(lines) = 1 THEN StdoutLine(st, lines[1], base)
    ELSE LET half == Len(lines) \div 2
         IN  CHOOSE r \in {StdoutLines(mid, SubSeq(lines, half + 1, Len(lines)), base) :
                              mid \in {StdoutLines(st, SubSeq(lines, 1, half), base)}} : TRUE

\* the whole listener for one chunk, as a function of the stored log, the
\* bufferLines variable and the number n of updates pushed so far: the log
\* and bufferLines it leaves
StdoutEffect(log, buffer, n, data) ==
    LET lines == ChunkLines(data)
        st    == StdoutLines([updates |-> log, buffer |-> buffer, count |-> 0],
                             lines, n)
    IN  [log    |-> IF lines = << >> THEN log ELSE Trimmed(st.updates),
         buffer |-> st.buffer,
         n      |-> n + st.count]

(***************************************************************************)
(* Inputs                                                                  *)
(***************************************************************************)
\* outcomes of the path checks and file deployment of a start request
PathKinds == {"ok", "notdir", "readonly", "copyfail"}
LaunchKinds == {"ok", "enoent"}

\* n copies of the text s
Repeat(s, n) == [i \in 1..(n * Len(s)) |-> s[((i - 1) % Len(s)) + 1]]

\* chunks the subprocess may write to stdout
PlainChunk == << "x", NL >>
BurstChunk == Repeat(PlainChunk, BurstLen)
RecordChunk == << "{file_change}", NL >>
StatusChunk == << "{status}", NL >>
FeaturesChunk == << TreeMark, Blank, "LOC", ":", Blank, "7", Blank,
                    "EXTRACTED", Blank, "FEATURES", NL, "RISK", ":", Blank, "HIGH", NL >>
RiskChunk == << "RISK", ":", Blank, "HIGH", Blank, "(", "82", "%", Blank,
                "confidence", ")", NL >>
StdoutChunks == {PlainChunk, BurstChunk, RecordChunk, StatusChunk, FeaturesChunk,
                 RiskChunk}

\* chunks that mix records, the value null, numbers, plain text and blank
\* lines
NullChunk == << "null", NL, "{analysis_result}", NL, Blank, NL, "7", NL, "x", NL >>
TextChunk == << "{status}", NL, "x", Blank, "y", NL, "{file_change}", NL, "null", NL >>
TailChunk == << "{file_change}", Blank, "x", NL, NL, "{file_change}", NL >>
\* metric lines: a value, a value that is no number, a label the parser does
\* not know
LocChunk == << TreeMark, Blank, "LOC", ":", Blank, "7", NL >>
RatioChunk == << TreeMark, Blank, "COMMENT", Blank, "RATIO", ":", Blank, "0", Dot, "5", NL >>
NoNumberChunk == << TreeMark, Blank, "COMPLEXITY", ":", Blank, Dot, NL,
                    TreeMark, Blank, "CLASSES", ":", Blank, "n/a", NL >>
UnknownLabelChunk == << TreeMark, Blank, "TOKENS", ":", Blank, "7", NL >>
ParserChunks == {PlainChunk, RecordChunk, NullChunk, TextChunk, TailChunk,
                 LocChunk, RatioChunk, NoNumberChunk, UnknownLabelChunk}

\* the lines of each chunk, computed once
LinesOf == [data \in StdoutChunks \cup ParserChunks |-> ChunkLines(data)]

\* chunks the subprocess may write to stderr
StderrChunks == {<< "Traceback", NL >>}

\* session ids `session_${Date.now()}` the client can send to stop-monitoring
SessionIds == {"session_1", "session_2"}
NoArg == "absent"

\* the text of an agent id and sessionId.split('_')[1]
IdText(a) ==
    CASE a = "agent_1_k3" -> << "agent", "_", "1", "_", "k3" >>
      [] a = "agent_2_x7" -> << "agent", "_", "2", "_", "x7" >>
SessionStamp(sid) ==
    CASE sid = "session_1" -> << "1" >>
      [] sid = "session_2" -> << "2" >>

\* the ChildProcess of an agent id: hasPid is false before spawn and when the
\* spawn failed (pid undefined)
NoProc == [state |-> "none", hasPid |-> FALSE, killed |-> FALSE, signals |-> << >>]
NoPoll == [agent |-> NoArg, status |-> 0, body |-> << >>, delivered |-> FALSE,
           hadCursor |-> FALSE, cursor |-> -1, retained |-> {}, prior |-> {},
           owed |-> {}, known |-> FALSE]
NoStop == [agent |-> NoArg, status |-> 0, left |-> {}]

Init ==
    /\ activeMonitors = << >>
    /\ monitorUpdates = [a \in {} |-> << >>]
    /\ sentUpdateIndices = [a \in {} |-> -1]
    /\ bufferLines = [a \in AgentIds |-> << >>]
    /\ proc = [a \in AgentIds |-> NoProc]
    /\ killTimers = {}
    /\ startReq = [a \in AgentIds |-> "none"]
    /\ lastPoll = NoPoll
    /\ lastStop = NoStop
    /\ appended = [a \in AgentIds |-> 0]
    /\ returned = [a \in AgentIds |-> {}]
    /\ received = [a \in AgentIds |-> {}]
    /\ steps = 0
    /\ currentSession = NoArg
    /\ awaiting = NoArg
    /\ currentAgentId = NoArg
    /\ monitoringInterval = FALSE
    /\ missedPollCount = 0
    /\ inFlight = 0
    /\ errorLines = 0
    /\ projects = << >>
    /\ creator = << >>
    /\ pendingProject = {}
    /\ lastProject = [op |-> NoArg, user |-> NoArg, id |-> NoArg, status |-> 0]

\* every event of a run of the server counts against the budget of the
\* model; the client is not part of such a run
Tick ==
    /\ steps < MaxSteps
    /\ steps' = steps + 1
    /\ UNCHANGED << clientVars, projectVars >>

(***************************************************************************)
(* POST /start-realtime-monitor                                            *)
(***************************************************************************)
\* a start handler that spawns and registers the session before it checks
\* the folder
StartRealtimeMonitorSpawnsFirst(a, path, launch) ==
    /\ Tick
    /\ startReq[a] = "none"
    /\ proc' = [proc EXCEPT ![a] =
                   [state |-> IF launch = "ok" THEN "running" ELSE "spawnfail",
                    hasPid |-> launch = "ok",
                    killed |-> FALSE, signals |-> << >>]]
    /\ monitorUpdates' = MapSet(monitorUpdates, a, << >>)
    /\ activeMonitors' = KeysSet(activeMonitors, a)
    /\ startReq' = [startReq EXCEPT ![a] =
                       IF path = "ok" THEN "pending"
                       ELSE IF path = "copyfail" THEN "500" ELSE "400"]
    /\ UNCHANGED << sentUpdateIndices, bufferLines, killTimers, lastPoll, lastStop,
                    appended, returned, received >>

\* a start handler whose generated agent id may be one already handed out
DeployAndSpawnReusesId(a, path, launch) ==
    /\ IF path # "ok"
       THEN /\ startReq' = [startReq EXCEPT ![a] =
                               IF path = "copyfail" THEN "500" ELSE "400"]
            /\ UNCHANGED << activeMonitors, monitorUpdates, proc >>
       ELSE /\ proc' = [proc EXCEPT ![a] =
                           [state |-> IF launch = "ok" THEN "running" ELSE "spawnfail",
                            hasPid |-> launch = "ok",
                            killed |-> FALSE, signals |-> << >>]]
            /\ monitorUpdates' = MapSet(monitorUpdates, a, << >>)
            /\ activeMonitors' = KeysSet(activeMonitors, a)
            /\ startReq' = [startReq EXCEPT ![a] = "pending"]
    /\ UNCHANGED << sentUpdateIndices, bufferLines, killTimers, lastPoll, lastStop,
                    appended, returned, received >>

\* the request up to the spawn and the registration of the session; a is
\* the agent id generated for the request, fresh by construction
DeployAndSpawn(a, path, launch) ==
    /\ startReq[a] = "none"
    /\ IF path # "ok"
       THEN /\ startReq' = [startReq EXCEPT ![a] =
                               IF path = "copyfail" THEN "500" ELSE "400"]
            /\ UNCHANGED << activeMonitors, monitorUpdates, proc >>
       ELSE /\ proc' = [proc EXCEPT ![a] =
                           [state |-> IF launch = "ok" THEN "running" ELSE "spawnfail",
                            hasPid |-> launch = "ok",
                            killed |-> FALSE, signals |-> << >>]]
            /\ monitorUpdates' = MapSet(monitorUpdates, a, << >>)
            /\ activeMonitors' = KeysSet(activeMonitors, a)
            /\ startReq' = [startReq EXCEPT ![a] = "pending"]
    /\ UNCHANGED << sentUpdateIndices, bufferLines, killTimers, lastPoll, lastStop,
                    appended, returned, received >>

\* the handler as an event of a run of the server
StartRealtimeMonitor(a, path, launch) ==
    /\ Tick
    /\ DeployAndSpawn(a, path, launch)

\* the 1000 ms timeout that answers the start request; the 'error' event of a
\* failed spawn is emitted on the next tick, so it has been handled by then
SendStartResponse(a) ==
    /\ startReq[a] = "pending"
    /\ proc[a].state # "spawnfail"
    /\ startReq' = [startReq EXCEPT ![a] = "200"]
    /\ UNCHANGED << activeMonitors, monitorUpdates, sentUpdateIndices, bufferLines,
                    proc, killTimers, lastPoll, lastStop, appended, returned,
                    received >>

\* the timeout as an event of a run of the server
StartRespond(a) ==
    /\ Tick
    /\ SendStartResponse(a)

(***************************************************************************)
(* Listeners of the spawned process                                        *)
(***************************************************************************)
StdoutData(a, data) ==
    /\ Tick
    /\ proc[a].state = "running"
    /\ LET lines == LinesOf[data]
           st    == StdoutLines([updates |-> UpdatesOf(a), buffer |-> bufferLines[a],
                                 count |-> 0], lines, appended[a])
       IN  /\ monitorUpdates' = IF lines = << >> THEN monitorUpdates
                                ELSE MapSet(monitorUpdates, a, Trimmed(st.updates))
           /\ bufferLines' = [bufferLines EXCEPT ![a] = st.buffer]
           /\ appended' = [appended EXCEPT ![a] = @ + st.count]
    /\ UNCHANGED << activeMonitors, sentUpdateIndices, proc, killTimers, startReq,
                    lastPoll, lastStop, returned, received >>

\* push one update to the log of a and store the trimmed array
PushUpdate(a, type, message) ==
    /\ monitorUpdates' =
          MapSet(monitorUpdates, a,
                 Trimmed(Append(UpdatesOf(a),
                                Update(type, message, NoMetrics, appended[a]))))
    /\ appended' = [appended EXCEPT ![a] = @ + 1]

StderrData(a, data) ==
    /\ Tick
    /\ proc[a].state = "running"
    /\ PushUpdate(a, "error", Trim(data))
    /\ UNCHANGED << activeMonitors, sentUpdateIndices, bufferLines, proc, killTimers,
                    startReq, lastPoll, lastStop, returned, received >>

\* the subprocess terminates (on its own, or because of a signal)
ProcExit(a) ==
    /\ Tick
    /\ proc[a].state = "running"
    /\ proc' = [proc EXCEPT ![a].state = "exited"]
    /\ UNCHANGED << activeMonitors, monitorUpdates, sentUpdateIndices, bufferLines,
                    killTimers, startReq, lastPoll, lastStop, appended, returned,
                    received >>

\* a close listener that pushes the update and leaves the session registered
ProcCloseKeepsSession(a) ==
    /\ Tick
    /\ proc[a].state = "exited"
    /\ proc' = [proc EXCEPT ![a].state = "closed"]
    /\ PushUpdate(a, "monitor_stopped", << "Process", Blank, "exited" >>)
    /\ UNCHANGED << activeMonitors, sentUpdateIndices, bufferLines, killTimers,
                    startReq, lastPoll, lastStop, returned, received >>

\* monitorProcess.on('close')
ProcClose(a) ==
    /\ Tick
    /\ proc[a].state = "exited"
    /\ proc' = [proc EXCEPT ![a].state = "closed"]
    /\ activeMonitors' = KeysDelete(activeMonitors, a)
    /\ PushUpdate(a, "monitor_stopped", << "Process", Blank, "exited" >>)
    /\ UNCHANGED << sentUpdateIndices, bufferLines, killTimers, startReq, lastPoll,
                    lastStop, returned, received >>

\* monitorProcess.on('error'): the spawn failed; 'close' follows
ProcError(a) ==
    /\ Tick
    /\ proc[a].state = "spawnfail"
    /\ proc' = [proc EXCEPT ![a].state = "exited"]
    /\ activeMonitors' = KeysDelete(activeMonitors, a)
    /\ PushUpdate(a, "error", << "Failed", Blank, "to", Blank, "start" >>)
    /\ UNCHANGED << sentUpdateIndices, bufferLines, killTimers, startReq, lastPoll,
                    lastStop, returned, received >>

(***************************************************************************)
(* GET /monitor-updates/:agentId.  arrives tells whether the response      *)
(* reaches the client or is lost in transit.                               *)
(***************************************************************************)
GetMonitorUpdates(a, arrives) ==
    /\ LET allUpdates    == UpdatesOf(a)
           lastSentIndex == LastSentIndex(a)
           newUpdates    == NewUpdates(allUpdates, lastSentIndex)
       IN  /\ sentUpdateIndices' = MapSet(sentUpdateIndices, a, Len(allUpdates) - 1)
           /\ lastPoll' = [agent |-> a, status |-> 200, body |-> newUpdates,
                           delivered |-> arrives,
                           hadCursor |-> MapHas(sentUpdateIndices, a),
                           cursor |-> IF MapHas(sentUpdateIndices, a)
                                      THEN sentUpdateIndices[a] ELSE -1,
                           retained |-> Seqs(allUpdates),
                           prior |-> returned[a],
                           owed |-> returned[a] \ received[a],
                           known |-> MapHas(monitorUpdates, a)]
           /\ returned' = [returned EXCEPT ![a] = @ \cup Seqs(newUpdates)]
           /\ received' = IF arrives
                          THEN [received EXCEPT ![a] = @ \cup Seqs(newUpdates)]
                          ELSE received
    /\ UNCHANGED << activeMonitors, monitorUpdates, bufferLines, proc, killTimers,
                    startReq, lastStop, appended >>

\* the handler as an event of a run of the server
MonitorUpdates(a, arrives) ==
    /\ Tick
    /\ GetMonitorUpdates(a, arrives)

(***************************************************************************)
(* POST /stop-monitoring (the first handler registered for the route)      *)
(***************************************************************************)
\* process.kill(signal): delivers the signal and sets killed if the process
\* is still alive, and does nothing otherwise
Kill(p, signal) ==
    IF p.state = "running"
    THEN [p EXCEPT !.killed = TRUE, !.signals = Append(@, signal)]
    ELSE p

\* the agent the request resolves to: body.agentId, or else the first active
\* agent whose id includes the stamp of body.sessionId
TargetAgentId(agentArg, sessionArg) ==
    IF agentArg # NoArg THEN agentArg
    ELSE IF sessionArg = NoArg THEN NoArg
    ELSE LET hits == {i \in 1..Len(activeMonitors) :
                         Includes(IdText(activeMonitors[i]), SessionStamp(sessionArg))}
         IN  IF hits = {} THEN NoArg
             ELSE activeMonitors[CHOOSE i \in hits : \A j \in hits : i <= j]

IsActive(a) == \E i \in 1..Len(activeMonitors) : activeMonitors[i] = a

\* the module-level maps that hold an entry for agent id a
EntriesOf(a) ==
    {m \in {"activeMonitors", "monitorUpdates", "sentUpdateIndices"} :
        \/ m = "activeMonitors" /\ IsActive(a)
        \/ m = "monitorUpdates" /\ MapHas(monitorUpdates, a)
        \/ m = "sentUpdateIndices" /\ MapHas(sentUpdateIndices, a)}

\* a stop handler that deletes the log of the target before it tests whether
\* the target is active
StopMonitoringCleansFirst(agentArg, sessionArg) ==
    LET target == TargetAgentId(agentArg, sessionArg)
    IN  IF target = NoArg \/ ~IsActive(target)
        THEN /\ lastStop' = [agent |-> target, status |-> 404, left |-> {}]
             /\ monitorUpdates' = MapDelete(monitorUpdates, target)
             /\ UNCHANGED << activeMonitors, proc, killTimers >>
        ELSE /\ IF ~proc[target].killed
                THEN /\ proc' = [proc EXCEPT ![target] = Kill(@, "SIGTERM")]
                     /\ killTimers' = killTimers \cup {target}
                ELSE UNCHANGED << proc, killTimers >>
             /\ activeMonitors' = KeysDelete(activeMonitors, target)
             /\ monitorUpdates' = MapDelete(monitorUpdates, target)
             /\ lastStop' = [agent |-> target, status |-> 200,
                              left |-> EntriesOf(target)']

StopMonitoring(agentArg, sessionArg) ==
    LET target == TargetAgentId(agentArg, sessionArg)
    IN  IF target = NoArg \/ ~IsActive(target)
        THEN /\ lastStop' = [agent |-> target, status |-> 404, left |-> {}]
             /\ UNCHANGED << activeMonitors, monitorUpdates, proc, killTimers >>
        ELSE /\ IF ~proc[target].killed
                THEN /\ proc' = [proc EXCEPT ![target] = Kill(@, "SIGTERM")]
                     /\ killTimers' = killTimers \cup {target}
                ELSE UNCHANGED << proc, killTimers >>
             /\ activeMonitors' = KeysDelete(activeMonitors, target)
             /\ monitorUpdates' = MapDelete(monitorUpdates, target)
             /\ lastStop' = [agent |-> target, status |-> 200,
                              left |-> EntriesOf(target)']

StopRequest(agentArg, sessionArg) ==
    /\ Tick
    /\ UNCHANGED << sentUpdateIndices, bufferLines, startReq, lastPoll, appended,
                    returned, received >>
    /\ StopMonitoring(agentArg, sessionArg)

\* the 5000 ms timeout set by stop-monitoring
KillTimer(a) ==
    /\ Tick
    /\ a \in killTimers
    /\ killTimers' = killTimers \ {a}
    /\ proc' = [proc EXCEPT ![a] = IF ~@.killed THEN Kill(@, "SIGKILL") ELSE @]
    /\ UNCHANGED << activeMonitors, monitorUpdates, sentUpdateIndices, bufferLines,
                    startReq, lastPoll, lastStop, appended, returned, received >>

Next ==
    \/ \E a \in StartedIds, path \in PathKinds, launch \in LaunchKinds :
          StartRealtimeMonitor(a, path, launch)
    \/ \E a \in AgentIds : StartRespond(a)
    \/ \E a \in AgentIds, data \in StdoutChunks : StdoutData(a, data)
    \/ \E a \in AgentIds, data \in StderrChunks : StderrData(a, data)
    \/ \E a \in AgentIds : ProcExit(a)
    \/ \E a \in AgentIds : ProcClose(a)
    \/ \E a \in AgentIds : ProcError(a)
    \/ \E a \in AgentIds, arrives \in BOOLEAN : MonitorUpdates(a, arrives)
    \/ \E agentArg \in AgentIds \cup {NoArg}, sessionArg \in SessionIds \cup {NoArg} :
          StopRequest(agentArg, sessionArg)
    \/ \E a \in AgentIds : KillTimer(a)

Spec == Init /\ [][Next]_vars

\* one session whose subprocess writes the mixed chunks
ParserNext ==
    \/ \E a \in StartedIds : StartRealtimeMonitor(a, "ok", "ok")
    \/ \E a \in StartedIds, data \in ParserChunks : StdoutData(a, data)

ParserSpec == Init /\ [][ParserNext]_vars

\* the life of the sessions of two start requests: start, exit and stop
\* events without output
LifecycleNext ==
    \/ \E a \in AgentIds, path \in {"ok", "notdir"}, launch \in LaunchKinds :
          StartRealtimeMonitor(a, path, launch)
    \/ \E a \in AgentIds : StartRespond(a)
    \/ \E a \in AgentIds : ProcExit(a)
    \/ \E a \in AgentIds : ProcClose(a)
    \/ \E a \in AgentIds : ProcError(a)
    \/ \E agentArg \in AgentIds \cup {NoArg}, sessionArg \in SessionIds \cup {NoArg} :
          StopRequest(agentArg, sessionArg)
    \/ \E a \in AgentIds : KillTimer(a)

LifecycleSpec == Init /\ [][LifecycleNext]_vars

(***************************************************************************)
(* Properties of the relay                                                 *)
(***************************************************************************)
Polled == lastPoll.agent # NoArg

\* the entries of an array of updates are in ascending append order
Ascending(arr) == \A i, j \in 1..Len(arr) : i < j => arr[i].seq < arr[j].seq

\* C1 (no gaps): every update that is retained in the log when a poll is
\* served and that no earlier poll returned is returned by that poll.
C1_NoGaps ==
    Polled => (lastPoll.retained \ lastPoll.prior) \subseteq Seqs(lastPoll.body)

\* C2 (only new updates): as long as every poll response has been delivered,
\* a poll returns no update that an earlier poll of the session returned.
C2_OnlyNewUpdates ==
    (Polled /\ \A a \in AgentIds : returned[a] = received[a])
        => Seqs(lastPoll.body) \cap lastPoll.prior = {}

\* C3 (since): for every log the program can hold and every cursor value k,
\* the poll's computation for a stored cursor k returns exactly the retained
\* updates whose append index is greater than k, in ascending order.
C3_Since ==
    \A a \in DOMAIN monitorUpdates : \A k \in -1..appended[a] :
        LET delta == NewUpdates(monitorUpdates[a], OrMinusOne(k))
        IN  /\ Seqs(delta) = {n \in Seqs(monitorUpdates[a]) : n > k}
            /\ Ascending(delta)

\* C4 (eviction does not renumber): an update that survives a step of the
\* program keeps the index the poll handler addresses it by (its position
\* in the stored array), so a cursor denotes the same update afterwards.
C4_NoRenumbering ==
    [][\A a \in DOMAIN monitorUpdates \cap DOMAIN monitorUpdates' :
          \A i \in 1..Len(monitorUpdates[a]) : \A j \in 1..Len(monitorUpdates'[a]) :
              monitorUpdates[a][i].seq = monitorUpdates'[a][j].seq => i = j]_vars

\* C5 (re-poll after a lost response): a poll returns every update that was
\* carried only by lost responses and is still retained.
C5_RepollAfterLoss ==
    Polled => (lastPoll.owed \cap lastPoll.retained) \subseteq Seqs(lastPoll.body)

\* C6 (unknown session): a poll for an agent id that has no session (never
\* created, or stopped and cleaned up) is answered 404.
C6_UnknownSessionNotFound ==
    (Polled /\ ~lastPoll.known) => lastPoll.status = 404

\* C7 (monotonic cursor): no step removes the stored cursor of an agent id
\* or makes it smaller.
C7_CursorMonotonic ==
    [][\A a \in DOMAIN sentUpdateIndices :
          /\ a \in DOMAIN sentUpdateIndices'
          /\ sentUpdateIndices'[a] >= sentUpdateIndices[a]]_vars

\* C8 (poll transition rule): a poll answers 200 with delta = the retained
\* updates after the watermark and leaves the watermark at
\* max(old watermark, highest index in delta), unchanged when delta is empty.
C8_PollTransition ==
    Polled =>
        LET delta == Seqs(lastPoll.body)
            now   == sentUpdateIndices[lastPoll.agent]
        IN  /\ lastPoll.status = 200
            /\ delta = {n \in lastPoll.retained : n > lastPoll.cursor}
            /\ \A n \in delta : now >= n
            /\ now >= lastPoll.cursor
            /\ now = lastPoll.cursor \/ now \in delta

\* C9 (bounded log): every stored log holds at most Capacity entries, and
\* they are the most recently appended ones, in append order.
C9_BoundedLog ==
    \A a \in DOMAIN monitorUpdates :
        LET log == monitorUpdates[a]
        IN  /\ Len(log) <= Capacity
            /\ \A i \in 1..Len(log) : log[i].seq = appended[a] - Len(log) + i - 1

\* C9 witness: a log at capacity from which entries have been evicted
C9_Witness ==
    \E a \in DOMAIN monitorUpdates :
        Len(monitorUpdates[a]) = Capacity /\ appended[a] > Capacity

\* C10 (stop cleans up): when stop-monitoring answers 200, no module-level
\* map holds an entry for the stopped agent id.
C10_StopRemovesBookkeeping ==
    lastStop.status = 200 => lastStop.left = {}

\* C11 (stop escalation): a stop request that answers 200 for a live
\* subprocess sends it SIGTERM, and when the grace timeout of the request
\* fires, SIGKILL is sent if and only if the subprocess has not exited.
C11_StopEscalation ==
    [][\A a \in AgentIds :
          /\ (lastStop' # lastStop /\ lastStop'.status = 200 /\ lastStop'.agent = a
                 /\ proc[a].state = "running")
                => proc'[a].signals = Append(proc[a].signals, "SIGTERM")
          /\ (a \in killTimers /\ a \notin killTimers')
                => IF proc[a].state = "running"
                   THEN proc'[a].signals = Append(proc[a].signals, "SIGKILL")
                   ELSE proc'[a].signals = proc[a].signals]_vars

\* positions of the monitor_stopped updates of an array of updates that were
\* pushed at or after append number n
StoppedSince(arr, n) ==
    {i \in 1..Len(arr) : arr[i].type = "monitor_stopped" /\ arr[i].seq >= n}

\* C12 (exactly one AgentStopped): a step appends a monitor_stopped update to
\* the log of a session exactly when it is the close of the session's
\* subprocess, and then it appends one; the close happens at most once per
\* session (whether the subprocess crashed, was stopped, or failed to
\* launch), and after it the session is not in the active registry.
C12_ExactlyOneAgentStopped ==
    [][\A a \in AgentIds :
          /\ Cardinality(StoppedSince(UpdatesOf(a)', appended[a])) =
                IF proc[a].state # "closed" /\ proc'[a].state = "closed" THEN 1 ELSE 0
          /\ proc[a].state = "closed" => proc'[a].state = "closed"
          /\ proc'[a].state = "closed" => ~IsActive(a)']_vars

\* C12 witness: the subprocess of a stopped session has closed and the one
\* monitor_stopped update is in the session's log
C12_Witness ==
    \E a \in AgentIds :
        /\ proc[a].state = "closed"
        /\ proc[a].signals = << "SIGTERM" >>
        /\ lastStop.agent = a /\ lastStop.status = 200
        /\ Cardinality(StoppedSince(UpdatesOf(a), 0)) = 1

\* C13 (session end observable by polling): once the subprocess of a session
\* has closed, a client that has received every response so far and has not
\* yet received the monitor_stopped update is never in a state where a poll
\* returns a body without that update and leaves the cursor as it was (from
\* such a state every later poll does the same, so the update never comes).
C13_SessionEndObservable ==
    \A a \in AgentIds :
        (/\ proc[a].state = "closed"
         /\ returned[a] = received[a]
         /\ \A i \in StoppedSince(UpdatesOf(a), 0) :
               UpdatesOf(a)[i].seq \notin received[a])
        => ~(/\ StoppedSince(NewUpdates(UpdatesOf(a), LastSentIndex(a)), 0) = {}
             /\ MapHas(sentUpdateIndices, a)
             /\ sentUpdateIndices[a] = Len(UpdatesOf(a)) - 1)

\* C14 (launch failure is an immediate error): for a start request whose
\* spawn failed, the request is never answered 200, and once the 'error'
\* event has been handled the session is not registered and the log of the
\* agent id holds no update reporting the failure.
C14_LaunchFailureSurfaced ==
    \A a \in AgentIds :
        (proc[a].state # "none" /\ ~proc[a].hasPid) =>
            /\ startReq[a] # "200"
            /\ proc[a].state # "spawnfail" =>
                  /\ ~IsActive(a)
                  /\ \A i \in 1..Len(UpdatesOf(a)) : UpdatesOf(a)[i].type # "error"

\* C15 (input errors never enter the session lifecycle): a start request
\* that is answered 400 (path not a directory, or not writable) leaves the
\* three maps as they were, spawns no subprocess, and the agent id generated
\* for it, which no map held before, has no entry in any map afterwards.
C15_RejectedStartCreatesNothing ==
    [][\A a \in AgentIds :
          (startReq[a] = "none" /\ startReq'[a] = "400" /\ EntriesOf(a) = {}) =>
              /\ EntriesOf(a)' = {}
              /\ proc'[a] = NoProc
              /\ proc' = proc
              /\ activeMonitors' = activeMonitors
              /\ monitorUpdates' = monitorUpdates
              /\ sentUpdateIndices' = sentUpdateIndices]_vars

\* C15 witness: a start request has been answered 400 and its agent id has
\* no entry in any map and no subprocess
C15_Witness ==
    \E a \in AgentIds :
        startReq[a] = "400" /\ EntriesOf(a) = {} /\ proc[a] = NoProc

\* C16 (stop of an unknown session): a stop request whose identifiers resolve
\* to no agent id, or to one that is not in the active registry, is answered
\* 404, and the registry, every log, every cursor, every subprocess (no
\* signal is sent) and the pending kill timeouts are left as they were.
C16_StopUnknownNotFound ==
    [][(/\ lastStop' # lastStop
        /\ lastStop'.agent = NoArg \/ ~IsActive(lastStop'.agent))
          => /\ lastStop'.status = 404
             /\ activeMonitors' = activeMonitors
             /\ monitorUpdates' = monitorUpdates
             /\ sentUpdateIndices' = sentUpdateIndices
             /\ proc' = proc
             /\ killTimers' = killTimers]_vars

\* C16 witness: a stop request naming a session whose subprocess has closed
\* (no longer active, log still stored) has been answered 404
C16_Witness ==
    \E a \in AgentIds :
        /\ lastStop.status = 404 /\ lastStop.agent = a
        /\ proc[a].state = "closed"
        /\ MapHas(monitorUpdates, a)

\* one-line chunks whose line the stream may deliver in two pieces
TreeChunk == << TreeMark, Blank, "LOC", ":", Blank, "7", NL >>
SplitChunks == {RiskChunk, TreeChunk}

\* the state the stdout listener of agent a starts from, and the listener
\* applied to one more chunk
ListenerState(a) == [log |-> UpdatesOf(a), buffer |-> bufferLines[a], n |-> appended[a]]
AfterChunk(s, data) == StdoutEffect(s.log, s.buffer, s.n, data)

\* C17 (chunk boundaries do not matter): for a running subprocess, a line
\* delivered in two stdout chunks cut at any position leaves the same log
\* as the line delivered in one chunk.
C17_SplitLineSameUpdates ==
    \A a \in AgentIds :
        proc[a].state = "running" =>
            \A data \in SplitChunks : \A k \in 1..(Len(data) - 1) :
                AfterChunk(AfterChunk(ListenerState(a), SubSeq(data, 1, k)),
                           SubSeq(data, k + 1, Len(data))).log
                    = AfterChunk(ListenerState(a), data).log

\* the output line of the metric with the b-th label, value 7
MetricLine(b) == << TreeMark, Blank >> \o MetricLabels[b].label \o << Blank, "7" >>

\* orders in which the subprocess may print the metric lines: the rotations
\* of the order of the labels, and their reversals
MetricOrders ==
    LET n == Len(MetricLabels)
    IN  {[i \in 1..n |-> ((i + r - 1) % n) + 1] : r \in 0..(n - 1)}
        \cup {[i \in 1..n |-> ((n - i + r) % n) + 1] : r \in 0..(n - 1)}

\* a chunk with the metric lines in the given order and then a line that is
\* not a metric line
MetricsChunk(order) ==
    LET F[i \in 0..Len(order)] ==
            IF i = 0 THEN << >> ELSE F[i - 1] \o MetricLine(order[i]) \o << NL >>
    IN  F[Len(order)] \o << "done", NL >>

\* C18 (metrics accumulation): for a running subprocess, the nine metric
\* lines in any order followed by a non-metric line make the listener append
\* exactly one update that carries metrics, and it carries all nine fields.
C18_OneMetricsBlock ==
    \A a \in AgentIds :
        proc[a].state = "running" =>
            \A order \in MetricOrders :
                LET before == ListenerState(a)
                    after  == AfterChunk(before, MetricsChunk(order))
                    blocks == {i \in 1..Len(after.log) :
                                  /\ after.log[i].seq >= before.n
                                  /\ after.log[i].metrics # NoMetrics}
                IN  /\ Cardinality(blocks) = 1
                    /\ \A i \in blocks : DOMAIN after.log[i].metrics = MetricKeys

(***************************************************************************)
(* The client's poll callback (DeployScript.jsx, startPollingForUpdates):  *)
(* the colour it gives the message of a console_output update.  Emoji are  *)
(* single tokens, named by their meaning.                                  *)
(***************************************************************************)
\* message.includes(word) for a one-token word
Has(message, tok) == \E i \in 1..Len(message) : message[i] = tok

\* a classification whose risk branch does not look for HIGH
ColorWithoutHigh(message) ==
    IF Trim(message) = << >> THEN "skip"
    ELSE IF Includes(message, << "RISK", ":" >>) \/ Has(message, "RED_CIRCLE")
            \/ Has(message, "HIGH")
    THEN IF Has(message, "RED_CIRCLE") THEN "error"
         ELSE IF Has(message, "MEDIUM") \/ Has(message, "YELLOW_CIRCLE") THEN "warning"
         ELSE "success"
    ELSE "info"

\* let color = 'info'; if / else-if chain on the content of the message;
\* "skip" when the callback returns without adding the message to the output
Color(message) ==
    IF Trim(message) = << >> THEN "skip"
    ELSE IF Includes(message, << "RISK", ":" >>) \/ Has(message, "RED_CIRCLE")
            \/ Has(message, "HIGH")
    THEN IF Has(message, "HIGH") \/ Has(message, "RED_CIRCLE") THEN "error"
         ELSE IF Has(message, "MEDIUM") \/ Has(message, "YELLOW_CIRCLE") THEN "warning"
         ELSE "success"
    ELSE IF \/ Includes(message, << "FILE", Blank, "CHANGED" >>)
            \/ Includes(message, << "File", Blank, "changed" >>)
            \/ Has(message, "MEMO")
            \/ Includes(message, << "file", Blank, "changed", ":" >>)
    THEN "info"
    ELSE IF Has(message, "Analyzing") \/ Has(message, "MAGNIFIER") THEN "info"
    ELSE IF Has(message, "Waiting") \/ Has(message, "BAR_CHART") THEN "info"
    ELSE IF Has(message, "Error") \/ Has(message, "CROSS_MARK") THEN "error"
    ELSE IF Has(message, "MISMATCH") \/ Has(message, "WARNING_SIGN") THEN "warning"
    ELSE IF Len(message) >= 2 /\ message[1] = "=" /\ message[2] = "=" THEN "skip"
    ELSE "info"

\* the line "RISK: HIGH (82% confidence)" as the listener sees it
RiskLine == ChunkLines(RiskChunk)[1]

\* the log of agent a holds the RISK line as the only update ever pushed
\* and no poll has returned anything for a yet
OnlyRiskLine(a) ==
    /\ appended[a] = 1
    /\ returned[a] = {}
    /\ Len(UpdatesOf(a)) = 1
    /\ UpdatesOf(a)[1].message = RiskLine

MessagesSince(arr, n) ==
    LET new == SelectSeq(arr, LAMBDA u : u.seq >= n)
    IN  [i \in 1..Len(new) |-> new[i].message]

\* C20 (ordering): every stored log is in ascending append order; the
\* updates a stdout chunk of text lines appends are its lines in the order
\* of the stream; and successive poll responses never list an update before
\* one that was appended earlier: a response is in ascending append order
\* and none of its updates precedes an update returned by an earlier poll.
C20_Ordering ==
    \A a \in AgentIds :
        /\ Ascending(UpdatesOf(a))
        /\ proc[a].state = "running" =>
              MessagesSince(AfterChunk(ListenerState(a), FeaturesChunk).log, appended[a])
                  = ChunkLines(FeaturesChunk)
        /\ (Polled /\ lastPoll.agent = a) =>
              /\ Ascending(lastPoll.body)
              /\ \A n \in Seqs(lastPoll.body) : \A m \in lastPoll.prior : m <= n

\* C20 witness: a poll that follows an earlier non-empty response has
\* returned several updates, some of them new
C20_Witness ==
    /\ Polled
    /\ Len(lastPoll.body) >= 2
    /\ lastPoll.prior # {}
    /\ Seqs(lastPoll.body) \ lastPoll.prior # {}

\* the stored cursor of agent id a, -1 standing for no entry
CursorOf(a) == IF MapHas(sentUpdateIndices, a) THEN sentUpdateIndices[a] ELSE -1

\* the updates of an array that were pushed at or after append number n
PushedSince(arr, n) == SelectSeq(arr, LAMBDA u : u.seq >= n)

\* C21 (frame of the two actors): a step that changes the log of an agent id
\* is a listener step that appends to it (keeping the newest Capacity
\* entries) and leaves every cursor alone, or the creation of the empty log
\* by start, or its removal by a stop answered 200; a step that changes the
\* cursor entry of an agent id leaves every log alone and advances the cursor.
C21_TwoActorsFrame ==
    [][\A a \in AgentIds :
          /\ (MapHas(monitorUpdates, a) # MapHas(monitorUpdates', a)
                 \/ UpdatesOf(a)' # UpdatesOf(a))
             => \/ /\ appended'[a] >= appended[a]
                   /\ proc[a].state # "none"
                   /\ MapHas(monitorUpdates', a)
                   /\ sentUpdateIndices' = sentUpdateIndices
                   /\ UpdatesOf(a)' =
                         SliceLast(UpdatesOf(a) \o PushedSince(UpdatesOf(a)', appended[a]),
                                   Capacity)
                \/ /\ ~MapHas(monitorUpdates, a)
                   /\ startReq[a] = "none" /\ startReq'[a] = "pending"
                   /\ UpdatesOf(a)' = << >>
                \/ /\ ~MapHas(monitorUpdates', a)
                   /\ lastStop'.status = 200 /\ lastStop'.agent = a
          /\ (MapHas(sentUpdateIndices, a) # MapHas(sentUpdateIndices', a)
                 \/ CursorOf(a)' # CursorOf(a))
             => /\ monitorUpdates' = monitorUpdates
                /\ lastPoll'.agent = a
                /\ CursorOf(a)' >= CursorOf(a)]_vars

\* C22 (consistent snapshot): a poll leaves the logs as they are, and its
\* response is a contiguous tail of the log as it stands when the poll is
\* served, with consecutive append numbers (nothing skipped inside the
\* returned window), whatever chunks and evictions came before.
C22_ConsistentSnapshot ==
    [][\A a \in AgentIds :
          (lastPoll' # lastPoll /\ lastPoll'.agent = a) =>
              /\ monitorUpdates' = monitorUpdates
              /\ \E k \in 0..Len(UpdatesOf(a)) :
                    lastPoll'.body = SliceFrom(UpdatesOf(a), k)
              /\ \A i \in 1..(Len(lastPoll'.body) - 1) :
                    lastPoll'.body[i + 1].seq = lastPoll'.body[i].seq + 1]_vars

\* C22 witness: a poll served after an eviction has returned a window of
\* several updates
C22_Witness ==
    /\ Polled
    /\ Len(lastPoll.body) >= 2
    /\ appended[lastPoll.agent] > Capacity
    /\ lastPoll.body[1].seq > 0

(***************************************************************************)
(* The client page (DeployScript.jsx) together with the server.  A request *)
(* of the client and the handler that serves it are one step; the poll     *)
(* callback is two steps, before and after its await of fetch, so several  *)
(* callbacks can be waiting at once.  The model follows one monitoring run *)
(* of one page; requests of other clients reach the same server.           *)
(***************************************************************************)
\* poll callbacks that may be waiting for their fetch at the same time
MaxInFlight == 2
\* if (missedPollCount > 10)
MaxMissedPolls == 10

\* how the fetch of a poll callback ends: served by the route handler,
\* answered with a non-2xx status before it reaches the handler, or rejected
PollOutcomes == {"handled", "refused", "failed"}

serverVars == << vars, steps >>

\* a threshold that already stops at the tenth failure
TooManyMissedAtTen(n) == n >= MaxMissedPolls

\* missedPollCount > 10
TooManyMissed(n) == n > MaxMissedPolls

\* startMonitoring and startRealFileWatcher up to the await of the start
\* request, and the server's handling of that request; sid is the id of the
\* session the page creates
ClientStartMonitoring(sid, a, path) ==
    /\ currentSession = NoArg /\ currentAgentId = NoArg /\ awaiting = NoArg
    /\ DeployAndSpawn(a, path, "ok")
    /\ currentSession' = sid
    /\ awaiting' = IF path = "ok" THEN a ELSE NoArg
    /\ UNCHANGED << steps, projectVars, currentAgentId, monitoringInterval, missedPollCount,
                    inFlight, errorLines >>

\* a start request of another client
OtherClientStart(a) ==
    /\ DeployAndSpawn(a, "ok", "ok")
    /\ UNCHANGED << steps, projectVars, clientVars >>

\* the server answers a start request; when it is the page's own request the
\* page calls startPollingForUpdates(data.agentId)
StartReply(a) ==
    /\ SendStartResponse(a)
    /\ IF awaiting = a
       THEN /\ awaiting' = NoArg
            /\ currentAgentId' = a
            /\ monitoringInterval' = TRUE
            /\ missedPollCount' = 0
            /\ UNCHANGED << currentSession, inFlight, errorLines >>
       ELSE UNCHANGED clientVars
    /\ UNCHANGED << steps, projectVars >>

\* the interval fires: the callback runs up to its await of fetch
PollIssue ==
    /\ monitoringInterval
    /\ inFlight < MaxInFlight
    /\ inFlight' = inFlight + 1
    /\ UNCHANGED << serverVars, projectVars, currentSession, awaiting, currentAgentId,
                    monitoringInterval, missedPollCount, errorLines >>

\* the fetch of a waiting callback settles and the callback runs to its end
PollSettle(outcome) ==
    /\ inFlight > 0
    /\ inFlight' = inFlight - 1
    /\ IF outcome = "handled"
       THEN \E a \in AgentIds :
               a = currentAgentId /\ GetMonitorUpdates(a, TRUE)
       ELSE UNCHANGED vars
    /\ IF outcome = "handled" /\ lastPoll'.status \in 200..299
       THEN /\ missedPollCount' = 0
            /\ UNCHANGED << monitoringInterval, errorLines >>
       ELSE /\ missedPollCount' = missedPollCount + 1
            /\ IF TooManyMissed(missedPollCount')
               THEN monitoringInterval' = FALSE /\ errorLines' = errorLines + 1
               ELSE UNCHANGED << monitoringInterval, errorLines >>
    /\ UNCHANGED << steps, projectVars, currentSession, awaiting, currentAgentId >>

\* stopMonitoring: clears the interval and, when a deployment is set, posts
\* the session id to /stop-monitoring, which the server handles
ClientStopMonitoring(hasDeployment) ==
    /\ currentSession # NoArg
    /\ monitoringInterval' = FALSE
    /\ IF hasDeployment
       THEN /\ UNCHANGED << sentUpdateIndices, bufferLines, startReq, lastPoll,
                            appended, returned, received >>
            /\ \E sid \in SessionIds :
                  sid = currentSession /\ StopMonitoring(NoArg, sid)
       ELSE UNCHANGED vars
    /\ currentSession' = NoArg
    /\ UNCHANGED << steps, projectVars, awaiting, currentAgentId, missedPollCount, inFlight,
                    errorLines >>

\* a stop request of another client
OtherClientStop(agentArg, sessionArg) ==
    /\ UNCHANGED << sentUpdateIndices, bufferLines, startReq, lastPoll, appended,
                    returned, received >>
    /\ StopMonitoring(agentArg, sessionArg)
    /\ UNCHANGED << steps, projectVars, clientVars >>

ClientNext ==
    \/ \E sid \in SessionIds, a \in AgentIds, path \in {"ok", "notdir"} :
          ClientStartMonitoring(sid, a, path)
    \/ \E a \in AgentIds : OtherClientStart(a)
    \/ \E a \in AgentIds : StartReply(a)
    \/ PollIssue
    \/ \E outcome \in PollOutcomes : PollSettle(outcome)
    \/ \E hasDeployment \in BOOLEAN : ClientStopMonitoring(hasDeployment)
    \/ \E agentArg \in AgentIds \cup {NoArg}, sessionArg \in SessionIds \cup {NoArg} :
          OtherClientStop(agentArg, sessionArg)

ClientSpec == Init /\ [][ClientNext]_allVars

\* the session of agent a is gone: it is not active and it has no log
SessionGone(a) == ~IsActive(a) /\ ~MapHas(monitorUpdates, a)

\* C23: when a poll of the page is served for a session that is gone, the
\* answer is not the answer of a live session without new data, so the poll
\* counts as a failed one or ends the loop; a loop that only meets a gone
\* session therefore ends.
C23_GoneSessionEndsPolling ==
    [][(/\ inFlight' < inFlight
        /\ monitoringInterval
        /\ currentAgentId # NoArg
        /\ SessionGone(currentAgentId)
        /\ sentUpdateIndices' # sentUpdateIndices \/ lastPoll' # lastPoll)
       => \/ missedPollCount' > missedPollCount
          \/ ~monitoringInterval'
          \/ lastPoll'.status # 200
          \/ lastPoll'.body # << >>]_allVars

\* what the lines of a chunk have to yield: the record types that are
\* stored, and the lines that do not decode to a value with a readable type
StoredTypes == {"{file_change}", "{analysis_result}"}
YieldsUpdate(line) == JsonParse(line) \in StoredTypes \cup {SyntaxError, "null"}
ExpectedType(line) ==
    IF JsonParse(line) = "{file_change}" THEN "file_change"
    ELSE IF JsonParse(line) = "{analysis_result}" THEN "analysis_result"
    ELSE "console_output"
ExpectedUpdates(data) ==
    LET kept == SelectSeq(ChunkLines(data), YieldsUpdate)
    IN  [i \in 1..Len(kept) |-> [type |-> ExpectedType(kept[i]), message |-> kept[i]]]

\* C24: the stdout listener handles every chunk to its end: each non-blank
\* line that decodes to a file_change or analysis_result record yields one
\* structured update, each line that does not decode (or decodes to null)
\* yields one console_output update with the raw text, in the order of the
\* lines, whatever the lines before it were.
C24_ParserTotal ==
    \A a \in StartedIds, data \in ParserChunks :
        LET s        == ListenerState(a)
            after    == AfterChunk(s, data)
            expected == ExpectedUpdates(data)
            pushed   == PushedSince(after.log, s.n)
        IN  /\ after.n = s.n + Len(expected)
            /\ Len(pushed) = Len(expected)
            /\ \A i \in 1..Len(expected) :
                  /\ pushed[i].type = expected[i].type
                  /\ pushed[i].message = expected[i].message
                  /\ pushed[i].seq = s.n + i - 1
            /\ after.log = SliceLast(s.log \o pushed, Capacity)

\* the log holds the console_output of a null line followed by the record
\* of the next line of the same chunk
C24_Witness ==
    \E a \in StartedIds : \E i \in 1..Len(UpdatesOf(a)) :
        /\ i < Len(UpdatesOf(a))
        /\ UpdatesOf(a)[i].type = "console_output"
        /\ UpdatesOf(a)[i].message = << "null" >>
        /\ UpdatesOf(a)[i + 1].type = "analysis_result"
        /\ UpdatesOf(a)[i + 1].seq = UpdatesOf(a)[i].seq + 1

\* line carries the label of branch b of the metrics parser
Carries(line, b) == Includes(line, << TreeMark, Blank >> \o MetricLabels[b].label)

\* the text after the label of branch b in line is a number
NumericValue(line, b) ==
    LET cap == RegexCapture(line, MetricLabels[b].label,
                            IF MetricLabels[b].float THEN Digits \cup {Dot} ELSE Digits)
    IN  cap # << >> /\ ~ParseFloat(cap).nan

\* C25: the metrics parsed from the buffered lines hold a field only for a
\* label some line carries with a numeric value (a value that is no number
\* leaves the field out, an unknown label adds nothing), and the result is
\* null exactly when no line gives a field.
C25_MetricsFields ==
    \A a \in StartedIds :
        LET lines == bufferLines[a]
            r     == parseMetricsSection(lines)
            Given(b) == \E i \in 1..Len(lines) :
                            Carries(lines[i], b) /\ NumericValue(lines[i], b)
        IN  /\ \A b \in 1..Len(MetricLabels) :
                  MetricLabels[b].key \in DOMAIN r.fields <=> Given(b)
            /\ \A k \in DOMAIN r.fields : ~r.fields[k].nan
            /\ r.null <=> ~\E b \in 1..Len(MetricLabels) : Given(b)

\* the subprocess of agent id a has been spawned and has not terminated
Live(a) == proc[a].state = "running"

C27_NoResurrection ==
    [][\A a \in AgentIds :
          (/\ lastStop.status = 200 /\ lastStop.agent = a
           /\ proc[a].hasPid
           /\ ~MapHas(monitorUpdates, a))
          => /\ ~MapHas(monitorUpdates', a)
             /\ MapHas(sentUpdateIndices', a) => MapHas(sentUpdateIndices, a)]_vars

\* C28: when the page that started a monitor and polls its agent id invokes
\* stopMonitoring while that agent is registered and its subprocess runs,
\* the step sends SIGTERM to that subprocess and removes that registration,
\* and it touches no other agent: every other subprocess and registration is
\* as before.
C28_UserStopReachesSubprocess ==
    [][(/\ currentSession # NoArg /\ currentSession' = NoArg
        /\ currentAgentId # NoArg
        /\ IsActive(currentAgentId)
        /\ proc[currentAgentId].state = "running"
        /\ ~proc[currentAgentId].killed)
       => /\ proc'[currentAgentId].signals
                = Append(proc[currentAgentId].signals, "SIGTERM")
          /\ ~IsActive(currentAgentId)'
          /\ \A b \in AgentIds \ {currentAgentId} :
                /\ proc'[b] = proc[b]
                /\ IsActive(b) => IsActive(b)']_allVars

\* C29: the polling loop of the page.  A callback starts a request only
\* while the interval is set.  A callback whose poll succeeded sets the
\* counter of missed polls to 0 and leaves the interval; a callback whose
\* poll failed adds one to the counter and, exactly when the counter is then
\* above 10, clears the interval and writes one error line.  The interval is
\* cleared only by that or by stopMonitoring, an error line is written only
\* with it, and an interval that has been cleared is not set again, so no
\* request follows.
C29_PollingLoop ==
    [][/\ inFlight' > inFlight => monitoringInterval
       /\ inFlight' < inFlight
          => \/ /\ missedPollCount' = 0
                /\ lastPoll'.status = 200
                /\ monitoringInterval' = monitoringInterval
                /\ errorLines' = errorLines
             \/ /\ missedPollCount' = missedPollCount + 1
                /\ vars' = vars
                /\ IF missedPollCount' > 10
                   THEN ~monitoringInterval' /\ errorLines' = errorLines + 1
                   ELSE /\ monitoringInterval' = monitoringInterval
                        /\ errorLines' = errorLines
       /\ (sentUpdateIndices' # sentUpdateIndices \/ lastPoll' # lastPoll)
          => missedPollCount' = 0
       /\ errorLines' # errorLines
          => inFlight' < inFlight /\ missedPollCount' > 10
       /\ (monitoringInterval /\ ~monitoringInterval')
          => \/ inFlight' < inFlight /\ missedPollCount' > 10
             \/ currentSession # NoArg /\ currentSession' = NoArg
       /\ (~monitoringInterval /\ monitoringInterval')
          => currentAgentId = NoArg /\ currentAgentId' # NoArg]_allVars

\* the eleventh failed poll in a row has just ended the loop with its error
\* line, while the user has not stopped
C29_Witness ==
    /\ missedPollCount = MaxMissedPolls + 1
    /\ ~monitoringInterval
    /\ errorLines = 1
    /\ currentSession # NoArg
    /\ currentAgentId # NoArg

(***************************************************************************)
(* The project routes (projects.js) over the Project collection.  A        *)
(* handler with two database calls is two steps, the request waiting in    *)
(* pendingProject between them.  req.user is the user the protect          *)
(* middleware has authenticated.                                           *)
(***************************************************************************)
Users == {"alice", "bob"}
ProjectIds == {"p1", "p2"}
Names == {"web", "api"}
\* project requests that may be between their two database calls
MaxPending == 1

\* req.body: the fields a request may carry (NoArg: the field is absent)
Bodies == [userId : Users \cup {NoArg}, name : Names \cup {NoArg}]

NoBody == [userId |-> NoArg, name |-> NoArg]

\* Project.findOne({ _id: id, userId: user }) finds a document
FindOwned(id, user) == MapHas(projects, id) /\ projects[id].userId = user

\* the document after an update with the fields of body
ApplyBody(doc, body) ==
    [userId |-> IF body.userId # NoArg THEN body.userId ELSE doc.userId,
     name   |-> IF body.name # NoArg THEN body.name ELSE doc.name]

Answer(op, user, id, status) == [op |-> op, user |-> user, id |-> id, status |-> status]

\* POST /api/projects: Project.create({...req.body, userId: req.user.id})
CreateProject(user, body) ==
    /\ body.name # NoArg
    /\ \E id \in ProjectIds \ DOMAIN creator :
          /\ projects' = MapSet(projects, id, [userId |-> user, name |-> body.name])
          /\ creator' = MapSet(creator, id, user)
          /\ lastProject' = Answer("create", user, id, 201)
    /\ UNCHANGED << pendingProject, allVars, steps >>

\* GET /api/projects/:id
GetProject(user, id) ==
    /\ lastProject' = Answer("get", user, id, IF FindOwned(id, user) THEN 200 ELSE 404)
    /\ UNCHANGED << projects, creator, pendingProject, allVars, steps >>

\* GET /api/projects/:id/analysis and /statistics: the ownership check, then
\* the request to the ML backend, which may fail; the statistics that
\* analysis saves are not part of the modelled document
GetFromBackend(op, user, id, mlOk) ==
    /\ lastProject' = Answer(op, user, id,
                             IF ~FindOwned(id, user) THEN 404
                             ELSE IF mlOk THEN 200 ELSE 500)
    /\ UNCHANGED << projects, creator, pendingProject, allVars, steps >>

\* PUT and DELETE /api/projects/:id up to the answer of findOne
FindForChange(op, user, id, body) ==
    /\ Cardinality(pendingProject) < MaxPending
    /\ IF FindOwned(id, user)
       THEN /\ pendingProject' = pendingProject \cup
                                   {[op |-> op, user |-> user, id |-> id, body |-> body]}
            /\ UNCHANGED lastProject
       ELSE /\ lastProject' = Answer(op, user, id, 404)
            /\ UNCHANGED pendingProject
    /\ UNCHANGED << projects, creator, allVars, steps >>

\* PUT: Project.findByIdAndUpdate(req.params.id, req.body, ...) and the answer
UpdateById(user, id, body) ==
    /\ [op |-> "put", user |-> user, id |-> id, body |-> body] \in pendingProject
    /\ pendingProject' = pendingProject \
                            {[op |-> "put", user |-> user, id |-> id, body |-> body]}
    /\ projects' = IF MapHas(projects, id)
                   THEN MapSet(projects, id, ApplyBody(projects[id], body))
                   ELSE projects
    /\ lastProject' = Answer("put", user, id, 200)
    /\ UNCHANGED << creator, allVars, steps >>

\* DELETE: project.deleteOne() and the answer
DeleteOne(user, id) ==
    /\ [op |-> "delete", user |-> user, id |-> id, body |-> NoBody] \in pendingProject
    /\ pendingProject' = pendingProject \
                            {[op |-> "delete", user |-> user, id |-> id, body |-> NoBody]}
    /\ projects' = MapDelete(projects, id)
    /\ lastProject' = Answer("delete", user, id, 200)
    /\ UNCHANGED << creator, allVars, steps >>

ProjectNext ==
    \/ \E user \in Users, body \in Bodies : CreateProject(user, body)
    \/ \E user \in Users, id \in ProjectIds : GetProject(user, id)
    \/ \E op \in {"analysis", "statistics"}, user \in Users, id \in ProjectIds,
          mlOk \in BOOLEAN : GetFromBackend(op, user, id, mlOk)
    \/ \E user \in Users, id \in ProjectIds, body \in Bodies :
          FindForChange("put", user, id, body)
    \/ \E user \in Users, id \in ProjectIds : FindForChange("delete", user, id, NoBody)
    \/ \E user \in Users, id \in ProjectIds, body \in Bodies : UpdateById(user, id, body)
    \/ \E user \in Users, id \in ProjectIds : DeleteOne(user, id)

ProjectSpec == Init /\ [][ProjectNext]_projectVars

\* C30: a read, update, delete, analysis or statistics request on a project
\* id is answered 404 unless the project exists with the userId of the
\* requesting user (then it succeeds, or fails with 500 when the ML backend
\* does), and every project's userId is the user whose request created it.
C30_ProjectOwnership ==
    [][/\ (lastProject' # lastProject /\ lastProject'.op # "create")
          => IF FindOwned(lastProject'.id, lastProject'.user)
             THEN lastProject'.status \in {200, 500}
             ELSE lastProject'.status = 404
       /\ \A id \in DOMAIN projects' : projects'[id].userId = creator'[id]]_projectVars

====
